---- MODULE Spec2Model ----
(***************************************************************************)
(* Model of local-chat-mcp: the MCP connection manager                     *)
(* (src/src/local_chat_agent/mcp/client_manager.py), its HTTP management   *)
(* surface (src/src/local_chat_agent/routes/mcp.py), the application       *)
(* lifespan (src/src/local_chat_agent/app.py) and the tool-call parser     *)
(* (src/src/local_chat_agent/mcp/tool_executor.py).                        *)
(*                                                                         *)
(* Scheduling is asyncio's: one coroutine runs at a time and control moves *)
(* only at an await that really suspends.  Every action below is the code  *)
(* between two suspension points.                                          *)
(***************************************************************************)
EXTENDS Integers, Sequences, FiniteSets, TLC

\* ---------------------------------------------------------------- bounds
\* Number of connections (background tasks and one-shot connects) ever created.
MaxTasks == 2
Names == {"a", "b"}
NoName == "none"
ToolNames == {"x", "y"}
\* Tool lists a server may report in its list_tools answer.
ToolLists == {<< >>, <<"x">>}
\* Number of segments (tool-call blocks, lines of prose) a parsed text is written from.
MaxSegs == 2
\* Largest turn budget (max_turns) the agentic loop is run with.
MaxTurns == 3
\* Number of '### FILE:' markers in a response.
MaxMarkers == 2
\* Number of files in an uploaded archive.
MaxFiles == 2
\* Largest max_iterations execute_tool_calls is run with.
MaxIterations == 2
TaskIds == 1..MaxTasks
NoTask == MaxTasks + 1
\* The coroutines (HTTP requests, lifespan shutdown, API callers) that can be in flight.
Handlers == {1, 2}

VARIABLES
  connections,       \* MCPClientManager.connections: insertion-ordered dict name -> connection
  connection_tasks,  \* MCPClientManager._connection_tasks: insertion-ordered dict name -> task
  task,              \* the asyncio tasks / one-shot connects created so far
  frame,             \* the coroutines of the callers (requests, shutdown), one per handler
  phase,             \* lifespan: "startup" until the application yields, then "serving"
  lsStarted,         \* names the lifespan has started from the configuration
  last,              \* the call that returned most recently, with what it returned
  quiet,             \* history: disconnect(n) returned and no start for n was issued since it was called
  text,              \* parser: the text handed to ToolCallParser (a sequence of tokens)
  segs,              \* parser: the segments the text was written from
  calls,             \* parser: the list extract_tool_calls returned
  ppc,               \* parser: "input" before the call, "extracted" after
  sub,               \* parser: one use of replace_tool_call_with_result: its arguments and results
  loop,              \* one run of agentic_execute: its locals and a log of what it did
  pf,                \* one run of parse_and_save_files: the response, the directory, the result
  job,               \* one request to /refactor: its files, the directory, the results, the answer
  run                \* one run of execute_tool_calls: its text, its loop, a log of the calls

pvars == <<text, segs, calls, ppc, sub, loop, pf, job, run>>

mvars == <<connections, connection_tasks, task, frame, last, phase, lsStarted, quiet>>

vars == <<mvars, pvars>>

\* ------------------------------------------------- Python dict, in order
\* A dict is the sequence of its items [k, v] in insertion order.
DictHas(d, k) == \E i \in 1..Len(d) : d[i].k = k

DictIdx(d, k) == CHOOSE i \in 1..Len(d) : d[i].k = k

DictGet(d, k) == d[DictIdx(d, k)].v

\* d[k] = v : an existing key keeps its position, a new key goes last.
DictSet(d, k, v) ==
  IF DictHas(d, k) THEN [d EXCEPT ![DictIdx(d, k)] = [k |-> k, v |-> v]]
  ELSE Append(d, [k |-> k, v |-> v])

\* del d[k] (the caller has checked the key).
DictDel(d, k) == SelectSeq(d, LAMBDA e : e.k # k)

\* list(d.keys())
DictKeys(d) == [i \in 1..Len(d) |-> d[i].k]

Range(s) == {s[i] : i \in 1..Len(s)}

\* ------------------------------------------------------------ task table
\* pc: "none"      not created
\*     "scheduled" created by asyncio.create_task, coroutine not yet started
\*     "handshake" channel open (stdio: child spawned), initialize/list_tools pending
\*     "hold"      registered, in the `while True: await asyncio.sleep(1)` loop
\*     "cancelled" finished by cancellation
\*     "failed"    finished with an exception
\*     "closed"    one-shot connect returned, its context manager has closed the channel
\* open:   the channel (child process / stream) is open
\* cancel: Task.cancel() was called and CancelledError is not yet delivered
\* hs:     the handshake of this connection completed
NoTaskRec == [kind |-> "none", name |-> NoName, pc |-> "none", open |-> FALSE,
              cancel |-> FALSE, hs |-> FALSE]

Allocated == {t \in TaskIds : task[t].pc # "none"}

CanAlloc == Cardinality(Allocated) < MaxTasks

NewId == Cardinality(Allocated) + 1

TaskDone(t) == task[t].pc \in {"cancelled", "failed", "closed"}

\* ------------------------------------------------------ manager queries
\* MCPClientManager.is_connected
is_connected(conns, n) == DictHas(conns, n)

\* MCPClientManager.get_connected_servers
get_connected_servers(conns) == DictKeys(conns)

\* `if server_name in self._connection_tasks` of disconnect
TrackedNoGuard(tasks, n) == TRUE

Tracked(tasks, n) == DictHas(tasks, n)

\* A suspended caller.  snap: the names disconnect_all took at its call; pre: the
\* name (for disconnect_all: every name) was unknown to the manager at the call.
IdleFrame == [op |-> "idle", pc |-> "idle", name |-> NoName, q |-> << >>, t |-> NoTask,
              snap |-> << >>, taint |-> FALSE, pre |-> FALSE]

\* Handlers are taken lowest first: which coroutine serves a call is immaterial.
Free(h) == frame[h].pc = "idle" /\ \A g \in Handlers : g < h => frame[g].pc # "idle"

\* What a finished call leaves to look at.  res: what the caller got; found: the
\* tool had an owner; post: no name of snap is connected or tracked at the return;
\* empty: get_connected_servers() is empty at the return.
NoLast == [op |-> "none", res |-> "none", found |-> FALSE, pre |-> FALSE,
           post |-> FALSE, empty |-> FALSE]

Returned(op, res) == [NoLast EXCEPT !.op = op, !.res = res]

\* A start for n issued while a disconnect(n) is suspended taints that disconnect:
\* its return says nothing about the new attempt.
Taint(fr, n) ==
  [h \in Handlers |->
     IF fr[h].pc = "await" /\ fr[h].name = n THEN [fr[h] EXCEPT !.taint = TRUE] ELSE fr[h]]

\* ------------------------------------------------ the background task
\* except asyncio.CancelledError: `if server_name in self.connections: del ...`
CancelHandlerKeeps(conns, n) == conns

CancelHandlerClearsRegistry(conns, n) == << >>

CancelHandler(conns, n) == DictDel(conns, n)

\* except Exception: print, raise.  The registry is not touched.
AfterErrorRegistersPartial(conns, n, t) == DictSet(conns, n, [chan |-> t, tools |-> << >>])

AfterError(conns, n, t) == conns

\* MCPClientManager.start_server: create the task, track it under the name.
start_server(n) ==
  /\ CanAlloc
  /\ task' = [task EXCEPT ![NewId] = [kind |-> "task", name |-> n, pc |-> "scheduled",
                                      open |-> FALSE, cancel |-> FALSE, hs |-> FALSE]]
  /\ connection_tasks' = DictSet(connection_tasks, n, NewId)
  /\ quiet' = [quiet EXCEPT ![n] = FALSE]

\* The task's first step: the transport context manager opens the channel.
TaskStart(t) ==
  /\ task[t].kind = "task" /\ task[t].pc = "scheduled" /\ ~task[t].cancel
  /\ task' = [task EXCEPT ![t].pc = "handshake", ![t].open = TRUE]
  /\ UNCHANGED <<pvars, connections, connection_tasks, frame, last, phase, lsStarted, quiet>>

\* Spawning the child / opening the stream fails.
TaskSpawnFail(t) ==
  /\ task[t].kind = "task" /\ task[t].pc = "scheduled" /\ ~task[t].cancel
  /\ task' = [task EXCEPT ![t].pc = "failed"]
  /\ connections' = AfterError(connections, task[t].name, t)
  /\ UNCHANGED <<pvars, connection_tasks, frame, last, phase, lsStarted, quiet>>

\* initialize and list_tools answered: `self.connections[server_name] = connection`,
\* then the hold loop.
TaskRegister(t, tl) ==
  /\ task[t].kind = "task" /\ task[t].pc = "handshake" /\ ~task[t].cancel
  /\ task' = [task EXCEPT ![t].pc = "hold", ![t].hs = TRUE]
  /\ connections' = DictSet(connections, task[t].name, [chan |-> t, tools |-> tl])
  /\ UNCHANGED <<pvars, connection_tasks, frame, last, phase, lsStarted, quiet>>

\* initialize or list_tools raises: the context managers close the channel.
TaskHandshakeFail(t) ==
  /\ task[t].kind = "task" /\ task[t].pc = "handshake" /\ ~task[t].cancel
  /\ task' = [task EXCEPT ![t].pc = "failed", ![t].open = FALSE]
  /\ connections' = AfterError(connections, task[t].name, t)
  /\ UNCHANGED <<pvars, connection_tasks, frame, last, phase, lsStarted, quiet>>

\* The channel closes under a holding task: the task leaves the loop with an
\* exception that is not CancelledError.
TaskChannelError(t) ==
  /\ task[t].kind = "task" /\ task[t].pc = "hold" /\ ~task[t].cancel
  /\ task' = [task EXCEPT ![t].pc = "failed", ![t].open = FALSE]
  /\ connections' = AfterError(connections, task[t].name, t)
  /\ UNCHANGED <<pvars, connection_tasks, frame, last, phase, lsStarted, quiet>>

\* CancelledError is delivered at the task's next step.  A coroutine that never
\* started has no handler to run; otherwise the context managers close the channel
\* and the cancellation handler runs before the task finishes.
TaskCancelled(t) ==
  /\ task[t].kind = "task" /\ task[t].cancel
  /\ task[t].pc \in {"scheduled", "handshake", "hold"}
  /\ task' = [task EXCEPT ![t].pc = "cancelled", ![t].open = FALSE, ![t].cancel = FALSE]
  /\ connections' = IF task[t].pc = "scheduled" THEN connections
                    ELSE CancelHandler(connections, task[t].name)
  /\ UNCHANGED <<pvars, connection_tasks, frame, last, phase, lsStarted, quiet>>

\* ------------------------------------------------------------ disconnect
DiscResult(conns, tasks, st, t, n, q, ret) ==
  [conns |-> conns, tasks |-> tasks, st |-> st, t |-> t, name |-> n, q |-> q, ret |-> ret]

RECURSIVE DisconnectRun(_, _, _, _)
RECURSIVE DisconnectResume(_, _, _, _, _)

\* `for server_name in q: await self.disconnect(server_name)`, from the entry of
\* disconnect(Head(q)) up to the first await that suspends, an exception, or the end.
\* Awaiting a finished task does not suspend: it raises the task's exception at once.
DisconnectRun(conns, tasks, q, ret) ==
  IF q = << >> THEN DiscResult(conns, tasks, "ok", NoTask, NoName, << >>, ret)
  ELSE LET n == Head(q) IN
    IF Tracked(tasks, n) THEN
      IF ~DictHas(tasks, n)
        THEN DiscResult(conns, tasks, "error", NoTask, n, << >>, ret)  \* KeyError
      ELSE LET t == DictGet(tasks, n) IN
        IF ~TaskDone(t)
          THEN DiscResult(conns, tasks, "await", t, n, Tail(q), ret)   \* cancel(), await
        ELSE IF task[t].pc = "cancelled"
          THEN DisconnectResume(conns, tasks, n, Tail(q), ret)         \* except CancelledError: pass
        ELSE DiscResult(conns, tasks, "error", NoTask, n, << >>, ret)  \* the task's exception
    ELSE DisconnectRun(DictDel(conns, n), tasks, Tail(q), ret \cup {n})

\* disconnect after its await: `del self._connection_tasks[server_name]`, then the
\* registry entry, then the next name of the loop.
DisconnectResume(conns, tasks, n, rest, ret) ==
  IF ~DictHas(tasks, n)
    THEN DiscResult(conns, tasks, "error", NoTask, n, << >>, ret)      \* KeyError
  ELSE DisconnectRun(DictDel(conns, n), DictDel(tasks, n), rest, ret \cup {n})

Response(op, st) ==
  IF op = "ep_disconnect" THEN (IF st = "ok" THEN "200" ELSE "500") ELSE st

\* The effect of one run of disconnect code by handler h.
ApplyDisconnect(h, op, r, snap, pre, ret) ==
  /\ connections' = r.conns
  /\ connection_tasks' = r.tasks
  /\ task' = IF r.st = "await" THEN [task EXCEPT ![r.t].cancel = TRUE] ELSE task
  /\ frame' = [frame EXCEPT ![h] =
       IF r.st = "await"
         THEN [IdleFrame EXCEPT !.op = op, !.pc = "await", !.name = r.name, !.q = r.q,
                                !.t = r.t, !.snap = snap, !.pre = pre]
         ELSE IdleFrame]
  /\ last' = IF r.st = "await" THEN last
             ELSE [NoLast EXCEPT !.op = op, !.res = Response(op, r.st),
                                 !.pre = pre,
                                 !.post = \A n \in Range(snap) :
                                             ~DictHas(r.conns, n) /\ ~DictHas(r.tasks, n),
                                 !.empty = (get_connected_servers(r.conns) = << >>)]
  /\ quiet' = [n \in Names |-> IF n \in ret THEN TRUE ELSE quiet[n]]
  /\ UNCHANGED <<pvars, phase, lsStarted>>

\* The name is unknown to the manager: no tracked task, no registry entry.
Unknown(n) == ~DictHas(connection_tasks, n) /\ ~DictHas(connections, n)

\* The awaited task has finished: the suspended disconnect goes on.
DisconnectWake(h) ==
  /\ frame[h].pc = "await" /\ TaskDone(frame[h].t)
  /\ LET f == frame[h]
         r == IF task[f.t].pc = "cancelled"
                THEN DisconnectResume(connections, connection_tasks, f.name, f.q, {})
                ELSE DiscResult(connections, connection_tasks, "error", NoTask, f.name,
                                << >>, {})
     IN ApplyDisconnect(h, f.op, r, f.snap, f.pre,
                        IF f.taint THEN r.ret \ {f.name} ELSE r.ret)

\* MCPClientManager.disconnect_all, called by the lifespan at shutdown.
DisconnectAllCall(h) ==
  /\ phase = "serving" /\ Free(h)
  /\ LET snap == DictKeys(connection_tasks)
         r == DisconnectRun(connections, connection_tasks, snap, {})
     IN ApplyDisconnect(h, "disconnect_all", r, snap, snap = << >>, r.ret)

\* ------------------------------------------------- management endpoints
\* POST /mcp/servers/{name}/connect (the SSE endpoint differs in the sleep only).
EpConnectCall(h, n) ==
  /\ phase = "serving" /\ Free(h)
  /\ IF is_connected(connections, n)
       THEN /\ last' = Returned("ep_connect", "400")
            /\ UNCHANGED <<pvars, connections, connection_tasks, task, frame, phase,
                           lsStarted, quiet>>
       ELSE /\ start_server(n)
            /\ frame' = [Taint(frame, n) EXCEPT ![h] =
                           [IdleFrame EXCEPT !.op = "ep_connect", !.pc = "sleep",
                                             !.name = n, !.t = NewId]]
            /\ UNCHANGED <<pvars, connections, last, phase, lsStarted>>

\* After asyncio.sleep: connected, or "Connection started but server not ready".
EpConnectWake(h) ==
  /\ frame[h].op = "ep_connect" /\ frame[h].pc = "sleep"
  /\ frame' = [frame EXCEPT ![h] = IdleFrame]
  /\ last' = Returned("ep_connect",
                      IF is_connected(connections, frame[h].name) THEN "200" ELSE "500")
  /\ UNCHANGED <<pvars, connections, connection_tasks, task, phase, lsStarted, quiet>>

\* POST /mcp/servers/{name}/disconnect
EpDisconnectCall(h, n) ==
  /\ phase = "serving" /\ Free(h)
  /\ IF ~is_connected(connections, n)
       THEN /\ last' = [Returned("ep_disconnect", "404") EXCEPT !.pre = Unknown(n)]
            /\ UNCHANGED <<pvars, connections, connection_tasks, task, frame, phase,
                           lsStarted, quiet>>
       ELSE LET r == DisconnectRun(connections, connection_tasks, <<n>>, {})
            IN ApplyDisconnect(h, "ep_disconnect", r, <<n>>, FALSE, r.ret)

\* ------------------------------------------------------------- lifespan
\* `for server_name, params in mcp_servers.items(): mcp_manager.start_server(...)`
LifespanStart(n) ==
  /\ phase = "startup" /\ n \notin lsStarted
  /\ start_server(n)
  /\ lsStarted' = lsStarted \cup {n}
  /\ UNCHANGED <<pvars, connections, frame, last, phase>>

\* The lifespan yields: the routes are served.
LifespanServe ==
  /\ phase = "startup"
  /\ phase' = "serving"
  /\ lsStarted' = {}
  /\ UNCHANGED <<pvars, connections, connection_tasks, task, frame, last, quiet>>

\* ------------------------------------------------------------ tool calls
\* call_tool_by_name's search: the first connection, in dict order, that lists the
\* tool; 0 when there is none (the ValueError "not found on any connected server").
FindOwnerLast(conns, tool) ==
  LET hits == {i \in 1..Len(conns) : tool \in Range(conns[i].v.tools)}
  IN IF hits = {} THEN 0 ELSE CHOOSE i \in hits : \A j \in hits : i >= j

FindOwner(conns, tool) ==
  LET hits == {i \in 1..Len(conns) : tool \in Range(conns[i].v.tools)}
  IN IF hits = {} THEN 0 ELSE CHOOSE i \in hits : \A j \in hits : i <= j

\* What session.call_tool can end with, by the classes call_mcp_tool tells apart:
\* a result, an exception of class ValueError, any other exception.
ExecOutcomes == {"result", "ValueError", "Exception"}

\* call_mcp_tool: `except ValueError` -> 404, `except Exception` -> 500.
EndpointStatus(outcome) ==
  CASE outcome = "result" -> "200"
    [] outcome = "ValueError" -> "404"
    [] OTHER -> "500"

\* POST /mcp/tools/{tool}/call, up to the await of session.call_tool.  The search,
\* call_tool's registry lookup and the start of the call run without suspension.
EpCallCall(h, tool) ==
  /\ phase = "serving" /\ Free(h)
  /\ LET i == FindOwner(connections, tool) IN
       IF i = 0
         THEN /\ last' = Returned("ep_call", EndpointStatus("ValueError"))
              /\ UNCHANGED frame
         ELSE /\ frame' = [frame EXCEPT ![h] =
                   [IdleFrame EXCEPT !.op = "ep_call", !.pc = "calling", !.name = tool,
                                     !.t = connections[i].v.chan]]
              /\ UNCHANGED last
  /\ UNCHANGED <<pvars, connections, connection_tasks, task, phase, lsStarted, quiet>>

\* session.call_tool ends.  On a closed channel it cannot produce a result.
EpCallReturn(h, outcome) ==
  /\ frame[h].op = "ep_call" /\ frame[h].pc = "calling"
  /\ outcome = "result" => task[frame[h].t].open
  /\ frame' = [frame EXCEPT ![h] = IdleFrame]
  /\ last' = [Returned("ep_call", EndpointStatus(outcome)) EXCEPT !.found = TRUE]
  /\ UNCHANGED <<pvars, connections, connection_tasks, task, phase, lsStarted, quiet>>

\* --------------------------------------------------------- tool rendering
RECURSIVE ToolsFrom(_, _)
\* The MCPTool objects of the connections from the i-th on, in dict order; a tool
\* carries the server name it was discovered under.
ToolsFrom(conns, i) ==
  IF i > Len(conns) THEN << >>
  ELSE [j \in 1..Len(conns[i].v.tools) |-> [name |-> conns[i].v.tools[j], server_name |-> conns[i].k]]
         \o ToolsFrom(conns, i + 1)

get_all_toolsFirstOnly(conns) == IF conns = << >> THEN << >> ELSE ToolsFrom(<<conns[1]>>, 1)

\* MCPClientManager.get_all_tools
get_all_tools(conns) == ToolsFrom(conns, 1)

Sentinel == <<[line |-> "text", v |-> "No tools available."]>>

RECURSIVE ToolLines(_)
\* The lines of one tool each: "### name", "Server: ...", "Description: ...".
ToolLines(tools) ==
  IF tools = << >> THEN << >>
  ELSE <<[line |-> "###", v |-> Head(tools).name],
         [line |-> "Server:", v |-> Head(tools).server_name],
         [line |-> "Description:", v |-> Head(tools).name]>> \o ToolLines(Tail(tools))

\* MCPClientManager.format_tools_for_prompt, line by line.
format_tools_for_prompt(conns) ==
  LET tools == get_all_tools(conns)
  IN IF tools = << >> THEN Sentinel
     ELSE <<[line |-> "text", v |-> "Available tools:"]>> \o ToolLines(tools)

\* ------------------------------------------- direct use of the manager
\* MCPClientManager.connect: the one-shot connect, up to its first await.
ConnectCall(h, n) ==
  /\ phase = "serving" /\ Free(h) /\ CanAlloc
  /\ task' = [task EXCEPT ![NewId] = [kind |-> "oneshot", name |-> n, pc |-> "handshake",
                                      open |-> TRUE, cancel |-> FALSE, hs |-> FALSE]]
  /\ frame' = [Taint(frame, n) EXCEPT ![h] =
       [IdleFrame EXCEPT !.op = "connect", !.pc = "handshake", !.name = n, !.t = NewId]]
  /\ quiet' = [quiet EXCEPT ![n] = FALSE]
  /\ UNCHANGED <<pvars, connections, connection_tasks, last, phase, lsStarted>>

\* The handshake succeeds: register, return the tools; leaving the `async with`
\* closes the channel.
ConnectReturn(h, tl) ==
  /\ frame[h].op = "connect" /\ frame[h].pc = "handshake"
  /\ connections' = DictSet(connections, frame[h].name, [chan |-> frame[h].t, tools |-> tl])
  /\ task' = [task EXCEPT ![frame[h].t].pc = "closed", ![frame[h].t].open = FALSE,
                          ![frame[h].t].hs = TRUE]
  /\ frame' = [frame EXCEPT ![h] = IdleFrame]
  /\ last' = Returned("connect", "ok")
  /\ UNCHANGED <<pvars, connection_tasks, phase, lsStarted, quiet>>

\* Spawn or handshake fails: the exception leaves connect.
ConnectFail(h) ==
  /\ frame[h].op = "connect" /\ frame[h].pc = "handshake"
  /\ connections' = AfterError(connections, frame[h].name, frame[h].t)
  /\ task' = [task EXCEPT ![frame[h].t].pc = "failed", ![frame[h].t].open = FALSE]
  /\ frame' = [frame EXCEPT ![h] = IdleFrame]
  /\ last' = Returned("connect", "error")
  /\ UNCHANGED <<pvars, connection_tasks, phase, lsStarted, quiet>>

\* MCPClientManager.disconnect called directly, for any name.
DisconnectCall(h, n) ==
  /\ phase = "serving" /\ Free(h)
  /\ LET r == DisconnectRun(connections, connection_tasks, <<n>>, {})
     IN ApplyDisconnect(h, "disconnect", r, <<n>>, Unknown(n), r.ret)

\* ======================================================= tool-call parser
\* A text is a sequence of tokens, each a piece of the text that the pattern
\*   ### TOOL_CALL:\s*(\S+)\s*\n```(?:json)?\s*\n(.*?)\n```      (DOTALL)
\* cannot split:
\*   "M"   the marker `### TOOL_CALL: `        "NL"  a newline
\*   "f", "g"  the words `foo`, `bar`          "BT"  three backticks
\*   "JS"  the word `json`                     "X"   the word `oops` (not JSON)
\*   "V1"  `{"a":1}`   "V1s" `{"a": 1}` (the same JSON value)   "V2" `{"a":2}`
\*   "R"   the marker `### TOOL_RESULT: ` that a substituted result starts with
\*   "E"   the message `Error executing tool: ...` of a failed call
Tokens == {"M", "NL", "f", "g", "BT", "JS", "X", "V1", "V1s", "V2", "R", "E"}

\* Tokens without whitespace inside: what \S+ can run over whole.
WordTokens == {"f", "g", "BT", "JS", "X", "V1", "V2"}

JsonTokens == {"V1", "V1s", "V2"}

\* json.loads on one JSON token: the value it denotes.
JsonValue(tk) == IF tk = "V2" THEN [a |-> 2] ELSE [a |-> 1]

Tok(txt, i) == IF i >= 1 /\ i <= Len(txt) THEN txt[i] ELSE "EOF"

RECURSIVE SkipNL(_, _)
\* \s* over newlines: the first position at or after i that is no newline.
SkipNL(txt, i) == IF Tok(txt, i) = "NL" THEN SkipNL(txt, i + 1) ELSE i

RECURSIVE SkipWord(_, _)
\* \S+ : the first position at or after i that is not inside a run of non-space.
SkipWord(txt, i) == IF Tok(txt, i) \in WordTokens THEN SkipWord(txt, i + 1) ELSE i

RECURSIVE FindFence(_, _)
\* (.*?)\n``` : the first position at or after i where a newline is followed by
\* three backticks; 0 when there is none.
FindFence(txt, i) ==
  IF i + 1 > Len(txt) THEN 0
  ELSE IF txt[i] = "NL" /\ txt[i + 1] = "BT" THEN i
  ELSE FindFence(txt, i + 1)

RECURSIVE Strip(_)
\* str.strip() on a run of tokens.
Strip(b) ==
  IF b = << >> THEN b
  ELSE IF Head(b) = "NL" THEN Strip(Tail(b))
  ELSE IF b[Len(b)] = "NL" THEN Strip(SubSeq(b, 1, Len(b) - 1))
  ELSE b

NoMatch == [ok |-> FALSE, name |-> << >>, body |-> << >>, end |-> 0]

\* One attempt of TOOL_CALL_PATTERN at position i.  end is the last position of the
\* match (the closing backticks).
MatchAt(txt, i) ==
  IF Tok(txt, i) # "M" THEN NoMatch
  ELSE
    LET n1 == SkipNL(txt, i + 1)          \* \s*
        n2 == SkipWord(txt, n1)           \* (\S+)
        n3 == SkipNL(txt, n2)             \* \s*\n
        n5 == IF Tok(txt, n3 + 1) = "JS" THEN n3 + 2 ELSE n3 + 1   \* ```(?:json)?
        n6 == SkipNL(txt, n5)             \* \s*\n, as many newlines as there are
        e  == FindFence(txt, n6)
    IN IF n2 = n1 \/ Tok(txt, n2) # "NL" \/ Tok(txt, n3) # "BT" \/ n6 = n5 THEN NoMatch
       ELSE IF e # 0
         THEN [ok |-> TRUE, name |-> SubSeq(txt, n1, n2 - 1),
               body |-> SubSeq(txt, n6, e - 1), end |-> e + 1]
       \* no later fence: \s* gives back a newline and the body is empty
       ELSE IF n6 - n5 >= 2 /\ Tok(txt, n6) = "BT"
         THEN [ok |-> TRUE, name |-> SubSeq(txt, n1, n2 - 1), body |-> << >>, end |-> n6]
       ELSE NoMatch

RECURSIVE Matches(_, _)
\* TOOL_CALL_PATTERN.finditer(text): the non-overlapping matches, left to right.
Matches(txt, i) ==
  IF i > Len(txt) THEN << >>
  ELSE LET m == MatchAt(txt, i)
       IN IF m.ok THEN <<m>> \o Matches(txt, m.end + 1) ELSE Matches(txt, i + 1)

\* json.loads(match.group(2).strip()) succeeds.
Parses(body) == Len(Strip(body)) = 1 /\ Strip(body)[1] \in JsonTokens

RECURSIVE CallsOf(_)
CallsOf(ms) ==
  IF ms = << >> THEN << >>
  ELSE IF Parses(Head(ms).body)
    THEN <<[name |-> Head(ms).name, args |-> JsonValue(Strip(Head(ms).body)[1])]>>
         \o CallsOf(Tail(ms))
  ELSE CallsOf(Tail(ms))                   \* except json.JSONDecodeError: print

\* ToolCallParser.extract_tool_calls
extract_tool_calls(txt) == CallsOf(Matches(txt, 1))

\* match_args == arguments: equality of the parsed values.
ArgsMatchAny(match_args, arguments) == TRUE

ArgsMatch(match_args, arguments) == match_args = arguments

\* f"### TOOL_RESULT: {tool_name}\n```\n{result}\n```"
Replacement(tool_name, result) ==
  <<"R">> \o tool_name \o <<"NL", "BT", "NL">> \o result \o <<"NL", "BT">>

\* replacer(match): the text that takes the place of one match.
replacer(txt, i, m, tool_name, arguments, result) ==
  IF m.name = tool_name /\ Parses(m.body)
       /\ ArgsMatch(JsonValue(Strip(m.body)[1]), arguments)
    THEN Replacement(tool_name, result)
    ELSE SubSeq(txt, i, m.end)            \* return match.group(0)

RECURSIVE SubFrom(_, _, _, _, _)
\* TOOL_CALL_PATTERN.sub(replacer, text) from position i on: every match is handed
\* to replacer, the text between the matches is copied.
SubFrom(txt, i, tool_name, arguments, result) ==
  IF i > Len(txt) THEN << >>
  ELSE LET m == MatchAt(txt, i)
       IN IF m.ok
            THEN replacer(txt, i, m, tool_name, arguments, result)
                   \o SubFrom(txt, m.end + 1, tool_name, arguments, result)
            ELSE <<txt[i]>> \o SubFrom(txt, i + 1, tool_name, arguments, result)

\* ToolCallParser.replace_tool_call_with_result
replace_tool_call_with_result(txt, tool_name, arguments, result) ==
  SubFrom(txt, 1, tool_name, arguments, result)

\* --------------------------------------------------------- parsed texts
\* The texts handed to the parser are written segment by segment:
\*   "good"   a complete block whose body is JSON       "bad"  one whose body is not
\*   "open"   a block cut off before its closing fence  "prose"  a line of other text
Segments ==
  [kind : {"good"}, name : {"f", "g"}, tag : BOOLEAN, val : JsonTokens]
    \cup [kind : {"bad", "open"}, name : {"f", "g"}, tag : {TRUE}, val : {"X"}]
    \cup [kind : {"prose"}, name : {"f"}, tag : {FALSE}, val : {"X"}]

SegSeqs == UNION {[1..n -> Segments] : n \in 0..MaxSegs}

\* The text of one segment.
Written(sg) ==
  LET head == <<"M", sg.name, "NL", "BT">> \o (IF sg.tag THEN <<"JS">> ELSE << >>) \o <<"NL">>
  IN CASE sg.kind = "good"  -> head \o <<sg.val, "NL", "BT", "NL">>
       [] sg.kind = "bad"   -> head \o <<"X", "NL", "BT", "NL">>
       [] sg.kind = "open"  -> head \o <<"V1", "NL">>
       [] OTHER             -> <<"X", "NL">>

RECURSIVE Flatten(_)
Flatten(ss) == IF ss = << >> THEN << >> ELSE Written(Head(ss)) \o Flatten(Tail(ss))

\* The caller hands a text to ToolCallParser.extract_tool_calls and gets the list back.
ExtractCall ==
  /\ ppc = "input"
  /\ calls' = extract_tool_calls(text)
  /\ ppc' = "extracted"
  /\ UNCHANGED <<text, segs, sub, loop, pf, job, run, mvars>>

\* The tool names, arguments and result texts a caller substitutes with.  A result is
\* whatever the tool returned: a word, or a text that itself shows a tool-call block.
SubNames == {<<"f">>, <<"g">>}
SubArgs == {[a |-> 1], [a |-> 2]}
SubResults == {<<"X">>, <<"M", "f", "NL", "BT", "JS", "NL", "V1", "NL", "BT">>}

NoSub == [pc |-> "off", name |-> << >>, args |-> [a |-> 0], result |-> << >>,
          out |-> << >>, calls2 |-> << >>, out2 |-> << >>]

\* text = replace_tool_call_with_result(text, tool_name, arguments, result_text)
SubstituteCall ==
  /\ sub.pc = "input"
  /\ sub' = [sub EXCEPT !.pc = "once",
               !.out = replace_tool_call_with_result(text, sub.name, sub.args, sub.result)]
  /\ UNCHANGED <<text, segs, calls, ppc, loop, pf, job, run, mvars>>

\* The caller extracts from the substituted text and substitutes the same call again.
SubstituteAgain ==
  /\ sub.pc = "once"
  /\ sub' = [sub EXCEPT !.pc = "twice",
               !.calls2 = extract_tool_calls(sub.out),
               !.out2 = replace_tool_call_with_result(sub.out, sub.name, sub.args, sub.result)]
  /\ UNCHANGED <<text, segs, calls, ppc, loop, pf, job, run, mvars>>

\* ---------------------------------------------------------- agentic loop
\* What the generation function may answer: a line of prose, one tool call, two
\* tool calls, a block whose body is not JSON.
GenTexts ==
  { Flatten(<<[kind |-> "prose", name |-> "f", tag |-> FALSE, val |-> "X"]>>),
    Flatten(<<[kind |-> "good", name |-> "f", tag |-> TRUE, val |-> "V1"]>>),
    Flatten(<<[kind |-> "good", name |-> "f", tag |-> TRUE, val |-> "V1"],
              [kind |-> "good", name |-> "g", tag |-> FALSE, val |-> "V2"]>>),
    Flatten(<<[kind |-> "bad", name |-> "f", tag |-> TRUE, val |-> "X"]>>) }

\* How one call_tool_by_name ends: with a result, or with an exception.
ToolOutcomes == {"success", "error"}

\* The system prompts a caller may pass.
SystemPrompts == {"refactor", "review"}

\* system_prompt is the parameter; posts logs the prompt and the system prompt of
\* every generation request; running holds the tool call being awaited.
NoLoop == [pc |-> "off", max_turns |-> 0, turn |-> 0, llm_output |-> << >>,
           todo |-> << >>, tool_results |-> << >>, conversation |-> << >>,
           ret |-> << >>, outs |-> << >>, gens |-> 0, execs |-> 0,
           system_prompt |-> "", posts |-> << >>, running |-> << >>]

\* `for tool_name, arguments in tool_calls`: the call the iteration is at.
CurrentLast(todo) == todo[Len(todo)]

Current(todo) == Head(todo)

\* f"{conversation}\n\nAssistant:\n{llm_output}\n\nSystem (Tool Results):\n{results_section}..."
TranscriptLastTurnOnly(conversation, llm_output, tool_results) ==
  <<[output |-> llm_output, results |-> tool_results]>>

Transcript(conversation, llm_output, tool_results) ==
  Append(conversation, [output |-> llm_output, results |-> tool_results])

\* `for turn in range(max_turns)`: another turn is left.
TurnLeftInclusive(turn, max_turns) == turn <= max_turns

TurnLeft(turn, max_turns) == turn < max_turns

\* `if not tool_calls`
NoCallsNever(tool_calls) == FALSE

NoCalls(tool_calls) == tool_calls = << >>

\* The for loop is left (lines 200-201): `return llm_output`, a name that is bound
\* only once a turn has run.
Exhausted(l) ==
  IF l.gens = 0 THEN [l EXCEPT !.pc = "raised"]
  ELSE [l EXCEPT !.pc = "returned", !.ret = l.llm_output]

\* The end of a turn (lines 189-198): the output and the results are appended to the
\* conversation and the loop goes to its next turn, or leaves.
EndTurn(l) ==
  LET m == [l EXCEPT !.conversation = Transcript(l.conversation, l.llm_output,
                                                  l.tool_results),
                     !.turn = l.turn + 1]
  IN IF TurnLeft(m.turn, m.max_turns) THEN [m EXCEPT !.pc = "gen"] ELSE Exhausted(m)

\* agentic_execute is called (lines 136-141).
LoopCall ==
  /\ loop.pc = "input"
  /\ LET l == [loop EXCEPT !.conversation = <<[output |-> << >>, results |-> << >>]>>]
     IN loop' = IF TurnLeft(0, l.max_turns) THEN [l EXCEPT !.pc = "gen"] ELSE Exhausted(l)
  /\ UNCHANGED <<text, segs, calls, ppc, sub, pf, job, run, mvars>>

\* The generation call answers with the text o (lines 144-166).
LoopGenerate(o) ==
  /\ loop.pc = "gen"
  /\ LET tool_calls == extract_tool_calls(o)
         l == [loop EXCEPT !.gens = loop.gens + 1, !.outs = Append(loop.outs, o),
                           !.posts = Append(loop.posts, [prompt |-> loop.conversation,
                                                         system |-> loop.system_prompt]),
                           !.llm_output = o, !.todo = tool_calls, !.tool_results = << >>]
     IN loop' = IF NoCalls(tool_calls) THEN [l EXCEPT !.pc = "returned", !.ret = o]
                ELSE IF tool_calls = << >> THEN EndTurn(l)
                ELSE [l EXCEPT !.pc = "exec"]
  /\ UNCHANGED <<text, segs, calls, ppc, sub, pf, job, run, mvars>>

\* The generation call fails (the request raises, or raise_for_status does).
LoopGenerateFail ==
  /\ loop.pc = "gen"
  /\ loop' = [loop EXCEPT !.gens = loop.gens + 1, !.pc = "raised",
                          !.posts = Append(loop.posts, [prompt |-> loop.conversation,
                                                        system |-> loop.system_prompt])]
  /\ UNCHANGED <<text, segs, calls, ppc, sub, pf, job, run, mvars>>

\* `for tool_name, arguments in tool_calls` is exhausted: the batch is done.
BatchDoneAfterFirst(todo) == TRUE

BatchDone(todo) == todo = << >>

\* The iteration over tool_calls reaches its next call and awaits
\* call_tool_by_name (lines 169-171).
LoopStartTool ==
  /\ loop.pc = "exec"
  /\ loop' = [loop EXCEPT !.pc = "call",
                          !.running = Append(loop.running, Current(loop.todo))]
  /\ UNCHANGED <<text, segs, calls, ppc, sub, pf, job, run, mvars>>

\* The awaited call_tool_by_name ends (lines 172-187), with a result or with an
\* exception that `except Exception` turns into an error entry; after the last call
\* the turn ends.
LoopExec(outcome) ==
  /\ loop.pc = "call"
  /\ LET c == Head(loop.running)
         l == [loop EXCEPT !.execs = loop.execs + 1, !.todo = Tail(loop.todo),
                           !.running = Tail(loop.running),
                           !.tool_results = Append(loop.tool_results,
                              [tool |-> c.name, arguments |-> c.args, status |-> outcome])]
     IN loop' = IF BatchDone(l.todo) THEN EndTurn(l) ELSE [l EXCEPT !.pc = "exec"]
  /\ UNCHANGED <<text, segs, calls, ppc, sub, pf, job, run, mvars>>

\* ---------------------------------------------------- execute_tool_calls
\* finds logs, pass by pass, how many calls extract_tool_calls returned.
NoRun == [pc |-> "off", text |-> << >>, max_iterations |-> 0, iteration |-> 0,
          todo |-> << >>, log |-> << >>, found |-> 0, finds |-> << >>]

\* result_text of a call that returned, error_msg of one that raised (lines 106, 112).
ResultText(outcome) == IF outcome = "success" THEN <<"X">> ELSE <<"E">>

\* What a call can put into the text: the error message, or the text the tool
\* returned, which may itself show a tool-call block.
RunResults(outcome) == IF outcome = "success" THEN SubResults ELSE {ResultText(outcome)}

\* `for iteration in range(max_iterations)`: another pass is left.
PassLeftInclusive(iteration, max_iterations) == iteration <= max_iterations

PassLeft(iteration, max_iterations) == iteration < max_iterations

\* execute_tool_calls is called with a text and max_iterations (lines 87-91).
RunCall(txt, n) ==
  /\ run.pc = "input"
  /\ run' = [run EXCEPT !.pc = "iter", !.text = txt, !.max_iterations = n]
  /\ UNCHANGED <<text, segs, calls, ppc, sub, loop, pf, job, mvars>>

\* `for iteration in range(max_iterations)`: extract, `if not tool_calls: break`
\* (lines 96-99), and after the loop `return text`.
RunIterate ==
  /\ run.pc = "iter"
  /\ IF PassLeft(run.iteration, run.max_iterations)
       THEN LET tool_calls == extract_tool_calls(run.text)
                r == [run EXCEPT !.finds = Append(run.finds, Len(tool_calls))]
            IN run' = IF tool_calls = << >> THEN [r EXCEPT !.pc = "returned"]
                      ELSE [r EXCEPT !.pc = "exec", !.todo = tool_calls,
                                     !.found = run.found + Len(tool_calls)]
       ELSE run' = [run EXCEPT !.pc = "returned"]
  /\ UNCHANGED <<text, segs, calls, ppc, sub, loop, pf, job, mvars>>

\* One call of the iteration (lines 103-116): call_tool_by_name returns or raises,
\* and the text is substituted with the result or with the error message.
RunExec(outcome, res) ==
  /\ run.pc = "exec"
  /\ res \in RunResults(outcome)
  /\ LET c == Head(run.todo)
         r == [run EXCEPT !.text = replace_tool_call_with_result(run.text, c.name, c.args, res),
                          !.log = Append(run.log, [tool |-> c.name, arguments |-> c.args,
                                                   status |-> outcome, result |-> res]),
                          !.todo = Tail(run.todo)]
     IN run' = IF r.todo = << >>
                 THEN [r EXCEPT !.pc = "iter", !.iteration = run.iteration + 1]
                 ELSE r
  /\ UNCHANGED <<text, segs, calls, ppc, sub, loop, pf, job, mvars>>

\* ------------------------------------------------------ multi-file output
\* A file name is a sequence of pieces: names, the separator "/", the backslash "BSL", the
\* parent directory "..", and "a..b", a name with two dots inside.
FNames ==
  { <<"a">>, <<"d", "/", "b">>, <<"c">>, <<"..", "/", "b">>, <<"/", "a">>, <<"BSL", "a">>,
    <<"d", "/", "..", "/", "..", "/", "b">>, <<"a..b">> }

\* `".." in fname`
HasDotDot(fname) == \E i \in 1..Len(fname) : fname[i] \in {"..", "a..b"}

UnsafeNever(fname) == FALSE

\* The path-traversal test of parse_and_save_files.
Unsafe(fname) == HasDotDot(fname) \/ Head(fname) = "/" \/ Head(fname) = "BSL"

RECURSIVE Depth(_, _)
\* How deep below the base directory os.path.join(base_dir, fname) lies when its first
\* i pieces are followed; negative once the path has left the base directory.
Depth(fname, i) ==
  IF i = 0 THEN 0
  ELSE LET d == Depth(fname, i - 1)
       IN IF d < 0 THEN d
          ELSE IF fname[i] = ".." THEN d - 1
          ELSE IF fname[i] = "/" THEN d
          ELSE d + 1

\* The file that open(os.path.join(base_dir, fname), "w") writes is inside base_dir.
UnderBase(fname) ==
  /\ Head(fname) # "/"                       \* join drops base_dir before an absolute path
  /\ \A i \in 1..Len(fname) : Depth(fname, i) >= 0

\* A content is a sequence of lines; "FENCE" is a line of three backticks.
Contents == { <<"hello">>, <<"FENCE", "hello", "FENCE">>, <<"hello", "world">> }

NoFile == <<"(no file)">>

\* The markdown clean-up of lines 40-46.
Cleanup(content) ==
  IF content # << >> /\ Head(content) = "FENCE"
    THEN LET l1 == Tail(content)
         IN IF l1 # << >> /\ l1[Len(l1)] = "FENCE" THEN SubSeq(l1, 1, Len(l1) - 1) ELSE l1
    ELSE content

RECURSIVE SaveFrom(_, _, _)
\* The loop of lines 35-60 over the marked segments: acc is the directory, the list
\* created_files and the log of the writes so far.
SaveFrom(marked, i, acc) ==
  IF i > Len(marked) THEN acc
  ELSE LET fname == marked[i].fname
           content == Cleanup(marked[i].content)
       IN IF Unsafe(fname) THEN SaveFrom(marked, i + 1, acc)        \* continue
          ELSE SaveFrom(marked, i + 1,
                 [files |-> [acc.files EXCEPT ![fname] = content],
                  created |-> Append(acc.created, fname),
                  writes |-> Append(acc.writes, fname)])

\* parse_and_save_files(raw_text, base_dir): none is the result None.
parse_and_save_files(marked, files) ==
  IF marked = << >> THEN [none |-> TRUE, files |-> files, created |-> << >>, writes |-> << >>]
  ELSE [none |-> FALSE] @@ SaveFrom(marked, 1, [files |-> files, created |-> << >>, writes |-> << >>])

Marked == [fname : FNames, content : Contents]

MarkedSeqs == UNION {[1..n -> Marked] : n \in 0..MaxMarkers}

EmptyDir == [f \in FNames |-> NoFile]

NoPf == [pc |-> "off", marked |-> << >>, files |-> EmptyDir, none |-> FALSE,
         created |-> << >>, writes |-> << >>]

\* The caller hands a response to parse_and_save_files.
ParseAndSave ==
  /\ pf.pc = "input"
  /\ pf' = [pc |-> "saved", marked |-> pf.marked] @@ parse_and_save_files(pf.marked, pf.files)
  /\ UNCHANGED <<text, segs, calls, ppc, sub, loop, job, run, mvars>>

\* ------------------------------------------------------------ bulk transform
\* The i-th file of the archive, as os.walk lists it.
FilePath(i) == IF i = 1 THEN <<"a">> ELSE IF i = 2 THEN <<"d", "/", "b">> ELSE <<"c">>

\* "eligible": read and sent to the model; "skipped": macOS metadata or an extension
\* that is not allowed; "unreadable": open/read raises.
FileKinds == {"eligible", "skipped", "unreadable"}

Original == <<"old">>

\* What the generation backend answers for one file: a failure of the request, or a
\* text, given as the lines before the first '### FILE:' marker and the marked
\* segments.  "REFUSE" is a line that contains the refusal marker "I cannot assist".
Out(pre, marked) == [fail |-> FALSE, pre |-> pre, marked |-> marked]

BackendFailure == [fail |-> TRUE, pre |-> << >>, marked |-> << >>]

JobOutputs ==
  { BackendFailure,
    Out(<< >>, << >>),
    Out(<<"REFUSE">>, << >>),
    Out(<<"new">>, << >>),
    Out(<<"FENCE", "new", "FENCE">>, << >>),
    Out(<< >>, <<[fname |-> <<"c">>, content |-> <<"hello">>]>>),
    Out(<< >>, <<[fname |-> <<"c">>, content |-> <<"REFUSE">>]>>),
    Out(<< >>, <<[fname |-> <<"..", "/", "b">>, content |-> <<"hello">>]>>),
    Out(<< >>, <<[fname |-> <<"a">>, content |-> <<"hello">>]>>) }

RECURSIVE MarkedLines(_)
MarkedLines(marked) ==
  IF marked = << >> THEN << >>
  ELSE <<"### FILE">> \o Head(marked).content \o MarkedLines(Tail(marked))

\* raw_output, line by line.
RawLines(o) == o.pre \o MarkedLines(o.marked)

\* cleaned_code of lines 177-179; raises stands for the IndexError of split(...)[1].
CleanSingle(lines) ==
  IF lines # << >> /\ Head(lines) = "FENCE"
    THEN IF Len(lines) = 1 THEN [raises |-> TRUE, code |-> << >>]
         ELSE LET rest == Tail(lines)
              IN [raises |-> FALSE,
                  code |-> IF Len(rest) >= 2 THEN SubSeq(rest, 1, Len(rest) - 1) ELSE rest]
    ELSE [raises |-> FALSE, code |-> lines]

\* `"I cannot assist" not in cleaned_code` is false.
Refuses(lines) == \E i \in 1..Len(lines) : lines[i] = "REFUSE"

\* process_file from the answer of the backend on (lines 162-193): the status it
\* returns and the directory it leaves.
AfterAnswer(path, o, dir) ==
  IF o.fail THEN [status |-> "error", dir |-> dir]
  ELSE LET saved == parse_and_save_files(o.marked, dir)
           c == CleanSingle(RawLines(o))
       IN IF ~saved.none /\ saved.created # << >>                       \* if new_files:
            THEN [status |-> "success", dir |-> [saved.files EXCEPT ![path] = NoFile]]
          ELSE IF c.raises THEN [status |-> "error", dir |-> saved.files]
          ELSE IF c.code # << >> /\ ~Refuses(c.code)
            THEN [status |-> "success", dir |-> [saved.files EXCEPT ![path] = c.code]]
          ELSE [status |-> "error", dir |-> saved.files]

\* `sem = asyncio.Semaphore(1)`
SemSlots == 1

\* Semaphore.acquire does not wait: a slot is free.
AcquirableAlways(sem) == TRUE

Acquirable(sem) == sem > 0

\* cur is the number of workers that have got the semaphore so far (they get it in
\* the order of the archive), running the files whose process_file has begun and
\* not returned, sem the free slots of the semaphore.
\* The all-failed test of line 240 taken for "some file failed".
AnswerFailsOnAnyError(results, dir) ==
  LET failed == SelectSeq(results, LAMBDA r : r.status = "error")
  IN IF failed # << >>
       THEN [kind |-> "failure", status |-> 502,
             details |-> [i \in 1..Len(failed) |-> [file |-> failed[i].file, error |-> "error"]],
             files |-> EmptyDir]
       ELSE [kind |-> "artifact", status |-> 200, details |-> << >>, files |-> dir]

NoJob == [pc |-> "off", n |-> 0, kinds |-> << >>, outs |-> << >>, dir |-> EmptyDir,
          cur |-> 0, running |-> {}, sem |-> SemSlots, results |-> << >>,
          response |-> [kind |-> "none", status |-> 0, details |-> << >>, files |-> EmptyDir]]

\* The answer of refactor_endpoint once gather has returned (lines 236-265).
Answer(results, dir) ==
  LET processed == SelectSeq(results, LAMBDA r : r.status # "skipped")
      failed == SelectSeq(processed, LAMBDA r : r.status = "error")
      detail(r) == [file |-> r.file, error |-> "error"]
  IN IF processed # << >> /\ Len(failed) = Len(processed)
       THEN [kind |-> "failure", status |-> 502,
             details |-> [i \in 1..Len(failed) |-> detail(failed[i])], files |-> EmptyDir]
       \* FileResponse(output_zip): the archive of the directory and nothing else
       ELSE [kind |-> "artifact", status |-> 200, details |-> << >>, files |-> dir]

\* The end of the worker of file i: its result is appended and the semaphore is
\* released.
Finish(j, i, status, dir) ==
  [j EXCEPT !.results = Append(j.results, [file |-> i, status |-> status]),
            !.dir = dir, !.running = j.running \ {i}, !.sem = j.sem + 1]

\* The next worker gets the semaphore and runs process_file up to its request to
\* the backend (lines 75-146); a file that is skipped or cannot be read is done at once.
WorkerStart ==
  /\ job.pc = "running"
  /\ Acquirable(job.sem)
  /\ job.cur < job.n
  /\ LET i == job.cur + 1
         j == [job EXCEPT !.cur = i, !.sem = job.sem - 1]
     IN job' = CASE job.kinds[i] = "skipped"    -> Finish(j, i, "skipped", job.dir)
                 [] job.kinds[i] = "unreadable" -> Finish(j, i, "error", job.dir)
                 [] OTHER                       -> [j EXCEPT !.running = job.running \cup {i}]
  /\ UNCHANGED <<text, segs, calls, ppc, sub, loop, pf, run, mvars>>

\* The backend answers for a file in flight (lines 146-193).
WorkerAnswer(i, o) ==
  /\ job.pc = "running"
  /\ i \in job.running
  /\ LET r == AfterAnswer(FilePath(i), o, job.dir)
     IN job' = [Finish(job, i, r.status, r.dir) EXCEPT !.outs = Append(job.outs, [file |-> i, out |-> o])]
  /\ UNCHANGED <<text, segs, calls, ppc, sub, loop, pf, run, mvars>>

\* Every worker is done: the endpoint answers.
JobAnswer ==
  /\ job.pc = "running"
  /\ job.running = {}
  /\ job.cur = job.n
  /\ job' = [job EXCEPT !.pc = "answered", !.response = Answer(job.results, job.dir)]
  /\ UNCHANGED <<text, segs, calls, ppc, sub, loop, pf, run, mvars>>

\* ------------------------------------------------------- specifications
MgrInit ==
  /\ connections = << >>
  /\ connection_tasks = << >>
  /\ task = [t \in TaskIds |-> NoTaskRec]
  /\ frame = [h \in Handlers |-> IdleFrame]
  /\ last = NoLast
  /\ phase = "startup"
  /\ lsStarted = {}
  /\ quiet = [n \in Names |-> FALSE]

ParserIdle ==
  /\ text = << >>
  /\ segs = << >>
  /\ calls = << >>
  /\ ppc = "off"
  /\ sub = NoSub
  /\ loop = NoLoop
  /\ pf = NoPf
  /\ job = NoJob
  /\ run = NoRun

Init == MgrInit /\ ParserIdle

\* The lifespan, the background tasks and the shutdown.
Lifecycle ==
  \/ \E n \in Names : LifespanStart(n)
  \/ LifespanServe
  \/ \E t \in TaskIds : TaskStart(t)
  \/ \E t \in TaskIds : TaskSpawnFail(t)
  \/ \E t \in TaskIds, tl \in ToolLists : TaskRegister(t, tl)
  \/ \E t \in TaskIds : TaskHandshakeFail(t)
  \/ \E t \in TaskIds : TaskChannelError(t)
  \/ \E t \in TaskIds : TaskCancelled(t)
  \/ \E h \in Handlers : DisconnectWake(h)
  \/ \E h \in Handlers : DisconnectAllCall(h)

\* The application: the lifecycle and the connect and disconnect endpoints.
Next ==
  \/ Lifecycle
  \/ \E h \in Handlers, n \in Names : EpConnectCall(h, n)
  \/ \E h \in Handlers : EpConnectWake(h)
  \/ \E h \in Handlers, n \in Names : EpDisconnectCall(h, n)

Spec == Init /\ [][Next]_vars

\* The application with the tool-call endpoint in use.
NextCall ==
  \/ Next
  \/ \E h \in Handlers, tool \in ToolNames : EpCallCall(h, tool)
  \/ \E h \in Handlers, o \in ExecOutcomes : EpCallReturn(h, o)

SpecCall == Init /\ [][NextCall]_vars

\* The manager used as a library: the lifecycle, the disconnect endpoint and the
\* direct calls of connect and disconnect.
NextApi ==
  \/ Lifecycle
  \/ \E h \in Handlers, n \in Names : EpDisconnectCall(h, n)
  \/ \E h \in Handlers, n \in Names : ConnectCall(h, n)
  \/ \E h \in Handlers, tl \in ToolLists : ConnectReturn(h, tl)
  \/ \E h \in Handlers : ConnectFail(h)
  \/ \E h \in Handlers, n \in Names : DisconnectCall(h, n)

SpecApi == Init /\ [][NextApi]_vars

\* The parser on its own: one text, drawn from the texts of at most MaxSegs segments.
ParserInit ==
  /\ MgrInit
  /\ segs \in SegSeqs
  /\ text = Flatten(segs)
  /\ calls = << >>
  /\ ppc = "input"
  /\ sub = NoSub
  /\ loop = NoLoop
  /\ pf = NoPf
  /\ job = NoJob
  /\ run = NoRun

ParserNext == ExtractCall

ParserSpec == ParserInit /\ [][ParserNext]_vars

\* Substitution of a result: one text and one (name, arguments, result) to substitute.
SubstInit ==
  /\ MgrInit
  /\ segs \in SegSeqs
  /\ text = Flatten(segs)
  /\ calls = << >>
  /\ ppc = "off"
  /\ \E n \in SubNames, a \in SubArgs, r \in SubResults :
        sub = [NoSub EXCEPT !.pc = "input", !.name = n, !.args = a, !.result = r]
  /\ loop = NoLoop
  /\ pf = NoPf
  /\ job = NoJob
  /\ run = NoRun

SubstNext == SubstituteCall \/ SubstituteAgain

SubstSpec == SubstInit /\ [][SubstNext]_vars

\* The agentic loop on its own, for every turn budget up to MaxTurns.
LoopInit ==
  /\ MgrInit
  /\ text = << >>
  /\ segs = << >>
  /\ calls = << >>
  /\ ppc = "off"
  /\ sub = NoSub
  /\ \E n \in 0..MaxTurns, sp \in SystemPrompts :
       loop = [NoLoop EXCEPT !.pc = "input", !.max_turns = n, !.system_prompt = sp]
  /\ pf = NoPf
  /\ job = NoJob
  /\ run = NoRun

LoopNext ==
  \/ LoopCall
  \/ \E o \in GenTexts : LoopGenerate(o)
  \/ LoopGenerateFail
  \/ LoopStartTool
  \/ \E oc \in ToolOutcomes : LoopExec(oc)

LoopSpec == LoopInit /\ [][LoopNext]_vars

\* The event loop runs every coroutine that can run.
LoopLive == LoopSpec /\ WF_vars(LoopNext)

\* parse_and_save_files on its own: one response of at most MaxMarkers marked
\* segments, saved into an empty directory.
SaveInit ==
  /\ MgrInit
  /\ text = << >>
  /\ segs = << >>
  /\ calls = << >>
  /\ ppc = "off"
  /\ sub = NoSub
  /\ loop = NoLoop
  /\ \E ms \in MarkedSeqs : pf = [NoPf EXCEPT !.pc = "input", !.marked = ms]
  /\ job = NoJob
  /\ run = NoRun

SaveNext == ParseAndSave

SaveSpec == SaveInit /\ [][SaveNext]_vars

\* One request to /refactor with an archive of at most MaxFiles files.
JobInit ==
  /\ MgrInit
  /\ text = << >>
  /\ segs = << >>
  /\ calls = << >>
  /\ ppc = "off"
  /\ sub = NoSub
  /\ loop = NoLoop
  /\ pf = NoPf
  /\ run = NoRun
  /\ \E n \in 0..MaxFiles : \E ks \in [1..n -> FileKinds] :
       job = [NoJob EXCEPT !.pc = "running", !.n = n, !.kinds = ks,
                !.dir = [f \in FNames |-> IF \E i \in 1..n : FilePath(i) = f THEN Original ELSE NoFile]]

JobNext ==
  \/ WorkerStart
  \/ \E i \in 1..MaxFiles, o \in JobOutputs : WorkerAnswer(i, o)
  \/ JobAnswer

JobSpec == JobInit /\ [][JobNext]_vars

\* The event loop runs every worker that can run, and the backend answers or fails
\* every request made to it.
JobLive == JobSpec /\ WF_vars(JobNext)

\* execute_tool_calls on its own: one text of at most MaxSegs segments, for every
\* max_iterations up to MaxIterations.
RunInit ==
  /\ MgrInit
  /\ text = << >>
  /\ segs = << >>
  /\ calls = << >>
  /\ ppc = "off"
  /\ sub = NoSub
  /\ loop = NoLoop
  /\ pf = NoPf
  /\ job = NoJob
  /\ run = [NoRun EXCEPT !.pc = "input"]

RunNext ==
  \/ \E ss \in SegSeqs, n \in 0..MaxIterations : RunCall(Flatten(ss), n)
  \/ RunIterate
  \/ \E oc \in ToolOutcomes, res \in SubResults \cup {ResultText("error")} : RunExec(oc, res)

RunSpec == RunInit /\ [][RunNext]_vars

\* ================================================================ claims
TasksOf(n) == {t \in TaskIds : task[t].name = n}

\* C1: at any instant at most one live Connection (an open channel held by a
\* background task) exists per server name, whatever the interleaving of connect
\* requests.  The code checks is_connected, which is still false while the first
\* start is handshaking, so a second request starts a second task.
C1_AtMostOneLiveConnection ==
  \A n \in Names :
    Cardinality({t \in TasksOf(n) : task[t].kind = "task" /\ task[t].open}) <= 1

\* C2: is_connected(name) is false until a start for the name has completed its
\* handshake, true while the tracked task holds its registered connection, and false
\* once disconnect(name) has returned, in every later state until another start.
C2_ConnectedFromHandshakeToDisconnect ==
  \A n \in Names :
    /\ (\A t \in TasksOf(n) : ~task[t].hs) => ~is_connected(connections, n)
    /\ quiet[n] => ~is_connected(connections, n)

\* C3: no connection is both cancelled and registered: in no state does the registry
\* (hence call and call_by_name, which choose from it) hold a connection whose
\* task has finished by cancellation.
C3_CancelledNeverRegistered ==
  \A i \in 1..Len(connections) : task[connections[i].v.chan].pc # "cancelled"

\* C3 witness: a registered connection's task was cancelled and has finished while the
\* disconnect that cancelled it has not resumed yet.
C3_Witness ==
  \E h \in Handlers :
    /\ frame[h].pc = "await"
    /\ task[frame[h].t].pc = "cancelled" /\ task[frame[h].t].hs

\* C4: disconnect(name) for a name with neither a tracked task nor a registry entry
\* returns without raising and changes neither table for any name; the disconnect
\* endpoint answers it 404 "not connected", also without a change.
C4_DisconnectUnknownIsNoOp ==
  [][\A h \in Handlers, n \in Names :
       /\ (DisconnectCall(h, n) /\ Unknown(n)) =>
            /\ last'.op = "disconnect" /\ last'.res = "ok"
            /\ connections' = connections /\ connection_tasks' = connection_tasks
            /\ task' = task
       /\ (EpDisconnectCall(h, n) /\ Unknown(n)) =>
            /\ last'.op = "ep_disconnect" /\ last'.res = "404"
            /\ connections' = connections /\ connection_tasks' = connection_tasks
            /\ task' = task]_vars

\* C4 witness: a direct disconnect of an unknown name has returned, in a state where
\* another name is connected and tracked.
C4_Witness ==
  /\ last.op = "disconnect" /\ last.pre /\ last.res = "ok"
  /\ connections # << >> /\ connection_tasks # << >>

\* C5: from any reachable manager state disconnect_all() returns without raising, and
\* at its return every name tracked at its call is neither connected nor tracked.
C5_DisconnectAllCompletes ==
  last.op = "disconnect_all" => last.res = "ok" /\ last.post

\* C6: disconnect_all() on a manager with zero tracked names returns without error
\* and leaves list_connected() empty.
C6_DisconnectAllOnUntrackedLeavesNoneConnected ==
  (last.op = "disconnect_all" /\ last.pre) => last.res = "ok" /\ last.empty

\* C7: a connection whose spawn or handshake failed is never registered: every
\* registry entry belongs to a connection that completed its handshake, a name none of
\* whose attempts completed the handshake is not connected, and a failed one-shot
\* connect is an error of that call.
C7_FailedHandshakeNeverRegistered ==
  /\ \A i \in 1..Len(connections) : task[connections[i].v.chan].hs
  /\ \A n \in Names :
       (\A t \in TasksOf(n) : ~task[t].hs) => ~is_connected(connections, n)
  /\ \A h \in Handlers :
       frame[h].op = "connect" => ~task[frame[h].t].hs /\ task[frame[h].t].pc = "handshake"

\* C7 witness: a background task and a one-shot connect for the same name have both
\* failed before completing the handshake.
C7_Witness ==
  /\ last.op = "connect" /\ last.res = "error"
  /\ \E t, u \in TaskIds :
       /\ task[t].kind = "task" /\ task[u].kind = "oneshot" /\ task[t].name = task[u].name
       /\ task[t].pc = "failed" /\ ~task[t].hs
       /\ task[u].pc = "failed" /\ ~task[u].hs

\* C8: every channel is released when its owning task ends, and once disconnect(name)
\* or disconnect_all() has returned no channel opened for that name is still open.
C8_NoChannelLeftOpen ==
  /\ \A t \in TaskIds : TaskDone(t) => ~task[t].open
  /\ \A n \in Names : quiet[n] => \A t \in TasksOf(n) : ~task[t].open

\* C9: the tool-call endpoint answers 404 exactly for tool-not-found (no registered
\* connection lists the tool); a failure raised while the tool executes on its owning
\* connection is answered differently (5xx).
C9_NotFoundDistinctFromExecutionFailure ==
  last.op = "ep_call" => ((last.res = "404") <=> ~last.found)

RECURSIVE ParsingBlocks(_)
\* The (name, arguments) pairs of the complete blocks of a text whose body is JSON,
\* first to last.
ParsingBlocks(ss) ==
  IF ss = << >> THEN << >>
  ELSE LET pair == [name |-> << Head(ss).name >>, args |-> JsonValue(Head(ss).val)]
       IN (IF Head(ss).kind = "good" THEN << pair >> ELSE << >>) \o ParsingBlocks(Tail(ss))

\* C10: extract returns exactly one (name, arguments) pair per complete tool-call
\* block whose body parses as JSON, in order of appearance; blocks that do not
\* parse are skipped without losing later blocks; a text without blocks gives the
\* empty list.
C10_ExtractOnePairPerParsingBlock ==
  ppc = "extracted" => calls = ParsingBlocks(segs)

\* A complete block of the text that carries the call (tool_name, arguments).
IsCall(sg, tool_name, arguments) ==
  sg.kind = "good" /\ <<sg.name>> = tool_name /\ JsonValue(sg.val) = arguments

AllClosed(ss) == \A i \in 1..Len(ss) : ss[i].kind # "open"

RECURSIVE FirstReplaced(_, _, _, _)
\* The text in which the first block that carries the call is replaced by the result
\* and every other segment is as it was written.
FirstReplaced(ss, tool_name, arguments, result) ==
  IF ss = << >> THEN << >>
  ELSE IF IsCall(Head(ss), tool_name, arguments)
    THEN Replacement(tool_name, result) \o <<"NL">> \o Flatten(Tail(ss))
  ELSE Written(Head(ss)) \o FirstReplaced(Tail(ss), tool_name, arguments, result)

\* C11: substitute replaces only the first block whose name and parsed arguments
\* equal the given ones; every other block, later blocks with the same name and
\* arguments included, is left textually untouched (stated for the texts in which
\* every block is closed).
C11_SubstituteReplacesOnlyFirstMatch ==
  (sub.pc = "once" /\ AllClosed(segs))
    => sub.out = FirstReplaced(segs, sub.name, sub.args, sub.result)

\* C12: on a text with no block that matches both the tool name and the arguments,
\* substitute returns the text unchanged.
C12_SubstituteWithoutMatchIsIdentity ==
  (sub.pc = "once" /\ \A i \in 1..Len(segs) : ~IsCall(segs[i], sub.name, sub.args))
    => sub.out = text

\* C12 witness: a text with a block of the same name and other arguments, and a
\* block of another name and the same arguments, came back unchanged.
C12_Witness ==
  /\ sub.pc = "once"
  /\ sub.out = text
  /\ \A i \in 1..Len(segs) : ~IsCall(segs[i], sub.name, sub.args)
  /\ \E i \in 1..Len(segs) :
       segs[i].kind = "good" /\ <<segs[i].name>> = sub.name /\ JsonValue(segs[i].val) # sub.args
  /\ \E i \in 1..Len(segs) :
       segs[i].kind = "good" /\ <<segs[i].name>> # sub.name /\ JsonValue(segs[i].val) = sub.args

\* C13: round trip: with c the first call extracted from the text, the text with c's
\* result substituted no longer yields c, and substituting a second time with the
\* same name and arguments leaves the substituted text unchanged.
C13_RoundTrip ==
  LET cs == extract_tool_calls(text)
  IN (sub.pc = "twice" /\ cs # << >> /\ sub.name = cs[1].name /\ sub.args = cs[1].args)
       => /\ \A i \in 1..Len(sub.calls2) : sub.calls2[i] # cs[1]
          /\ sub.out2 = sub.out

\* C14: when the first generated text holds no extractable tool call, the agentic
\* loop returns exactly that text after one generation call, with no second
\* generation call and no tool execution.
C14_NoToolCallReturnsFirstOutput ==
  (loop.outs # << >> /\ extract_tool_calls(loop.outs[1]) = << >>)
    => /\ loop.pc = "returned"
       /\ loop.ret = loop.outs[1]
       /\ loop.gens = 1
       /\ loop.execs = 0

\* C14 witness: a loop with budget for more turns returned its first output, which
\* held no tool call.
C14_Witness ==
  /\ loop.pc = "returned"
  /\ loop.max_turns >= 2
  /\ loop.gens = 1
  /\ extract_tool_calls(loop.outs[1]) = << >>
  /\ loop.ret = loop.outs[1]

EveryOutputCalls ==
  /\ loop.max_turns >= 1
  /\ loop.gens = Len(loop.outs)                 \* no generation call failed
  /\ \A i \in 1..Len(loop.outs) : extract_tool_calls(loop.outs[i]) # << >>

\* C15: when every generated text holds a tool call, the agentic loop terminates,
\* after exactly max_turns generation calls (never more, never fewer), and returns
\* the raw text of the last generation.
C15_BudgetExhaustedReturnsLastOutput ==
  /\ [](EveryOutputCalls =>
          /\ loop.gens <= loop.max_turns
          /\ loop.pc # "raised"
          /\ loop.pc = "returned" => (loop.gens = loop.max_turns /\ loop.ret = loop.outs[loop.gens]))
  /\ <>(loop.pc \in {"returned", "raised"})

\* C15 witness: a loop with a budget of several turns returned after every turn
\* made tool calls.
C15_Witness ==
  /\ EveryOutputCalls
  /\ loop.pc = "returned"
  /\ loop.max_turns >= 2
  /\ loop.gens = loop.max_turns
  /\ loop.execs >= loop.max_turns
  /\ loop.ret = loop.outs[loop.max_turns]

\* The last segment marked with the file name f.
LastMarked(f) ==
  CHOOSE i \in 1..Len(pf.marked) :
    pf.marked[i].fname = f /\ \A j \in (i + 1)..Len(pf.marked) : pf.marked[j].fname # f

ResultsWith(status) == {i \in 1..Len(job.results) : job.results[i].status = status}

\* The files the answer carries an error entry for.
Reported == {job.response.details[i].file : i \in 1..Len(job.response.details)}

FailedFiles == {job.results[i].file : i \in ResultsWith("error")}

\* C17: a batch with at least one success and at least one failure is answered with
\* the artifact together with one error entry per failed file; a batch in which
\* every processable file failed is answered with an overall failure that carries
\* one error entry per failed file and no artifact.
C17_BatchReportsPerFileErrors ==
  job.pc = "answered" =>
    /\ (ResultsWith("success") # {} /\ ResultsWith("error") # {})
         => (job.response.kind = "artifact" /\ Reported = FailedFiles
               /\ Len(job.response.details) = Cardinality(FailedFiles))
    /\ (ResultsWith("success") = {} /\ ResultsWith("error") # {})
         => (job.response.kind = "failure" /\ Reported = FailedFiles
               /\ Len(job.response.details) = Cardinality(FailedFiles)
               /\ job.response.files = EmptyDir)

\* The answer of the backend is empty or contains the refusal marker.
EmptyOrRefusal(o) == ~o.fail /\ (RawLines(o) = << >> \/ Refuses(RawLines(o)))

\* C18: for an eligible file, an answer that is empty or contains the refusal
\* marker gives an "error" result for that file and leaves the file's content as
\* it was; it is never reported as success.
C18_EmptyOrRefusalIsError ==
  \A k \in 1..Len(job.outs) :
    EmptyOrRefusal(job.outs[k].out) =>
      /\ \E i \in 1..Len(job.results) :
           job.results[i].file = job.outs[k].file /\ job.results[i].status = "error"
      /\ (job.cur = job.outs[k].file => job.dir[FilePath(job.outs[k].file)] = Original)

\* C19: format_tools_for_prompt returns exactly the sentinel "No tools available."
\* when no registered connection contributes a tool (empty registry, or only empty
\* tool lists), and otherwise a rendering that names every tool of every
\* registered connection together with its owning server.
C19_SentinelOrEveryToolWithServer ==
  LET r == format_tools_for_prompt(connections)
  IN IF \A i \in 1..Len(connections) : connections[i].v.tools = << >>
       THEN r = Sentinel
       ELSE /\ r # Sentinel
            /\ \A i \in 1..Len(connections) : \A tl \in Range(connections[i].v.tools) :
                 \E j \in 1..(Len(r) - 1) :
                   /\ r[j] = [line |-> "###", v |-> tl]
                   /\ r[j + 1] = [line |-> "Server:", v |-> connections[i].k]

\* C19 witness: two servers are registered, the first with an empty tool list and the
\* second with a tool; the rendering names that tool with the second server.
C19_Witness ==
  /\ Len(connections) = 2
  /\ connections[1].v.tools = << >>
  /\ connections[2].v.tools # << >>
  /\ format_tools_for_prompt(connections) # Sentinel
  /\ Len(format_tools_for_prompt(connections)) = 4

\* C20: a name only becomes connected out of CONNECTING: a start or connect for it
\* was issued and is still establishing the connection, and no disconnect for the
\* name has returned since that start was issued.
C20_ConnectedOnlyAfterStart ==
  [][\A n \in Names :
       (~is_connected(connections, n) /\ is_connected(connections', n))
         => /\ \E t \in TasksOf(n) : task[t].pc = "handshake" /\ task'[t].hs
            /\ ~quiet[n]]_vars

\* C21: when the channel of a connected name closes unexpectedly (the task leaves its
\* hold loop with an error that is not a cancellation), the name leaves the registry
\* as it does on cancellation: no registry entry belongs to a background task that
\* has ended with an error.
C21_ChannelErrorUnregisters ==
  \A i \in 1..Len(connections) :
    LET t == connections[i].v.chan IN
      task[t].kind = "task" => task[t].pc # "failed"

\* C22: after start(name) failed to establish its connection, nothing of it is left
\* behind: the failed attempt is neither registered nor tracked (so that disconnect
\* takes the name for unknown).
C22_FailedStartLeavesNoState ==
  \A t \in TaskIds :
    (task[t].kind = "task" /\ task[t].pc = "failed" /\ ~task[t].hs) =>
      /\ \A i \in 1..Len(connections) : connections[i].v.chan # t
      /\ \A i \in 1..Len(connection_tasks) : connection_tasks[i].v # t

\* The step is the end of background task t by an error or by cancellation.
LifecycleError(t) ==
  \/ TaskSpawnFail(t)
  \/ TaskHandshakeFail(t)
  \/ TaskChannelError(t)
  \/ TaskCancelled(t)

\* C23: a lifecycle error of one connection (spawn or handshake failure, channel
\* error, cancellation) leaves the registry entry, the tool list and the background
\* tasks of every other server name as they were.
C23_LifecycleErrorIsLocal ==
  [][\A t \in TaskIds :
       LifecycleError(t) =>
         \A n \in Names \ {task[t].name} :
           /\ DictHas(connections', n) = DictHas(connections, n)
           /\ DictHas(connections, n) => DictGet(connections', n) = DictGet(connections, n)
           /\ DictHas(connection_tasks', n) = DictHas(connection_tasks, n)
           /\ DictHas(connection_tasks, n) =>
                DictGet(connection_tasks', n) = DictGet(connection_tasks, n)
           /\ \A u \in TasksOf(n) : task'[u] = task[u]]_vars

\* C23 witness: a task of one name has ended by an error or by cancellation while
\* another name is registered with a tool and held by its running task.
C23_Witness ==
  \E t, u \in TaskIds :
    /\ task[t].kind = "task" /\ task[t].pc \in {"failed", "cancelled"}
    /\ task[u].kind = "task" /\ task[u].pc = "hold" /\ task[u].name # task[t].name
    /\ DictHas(connections, task[u].name)
    /\ DictGet(connections, task[u].name) = [chan |-> u, tools |-> <<"x">>]
    /\ DictHas(connection_tasks, task[u].name)

\* C24: disconnect(name) issued while the tracked task of name is still connecting
\* cancels that task; once it has returned, and until another start of the name,
\* the name is not connected and not tracked.
C24_DisconnectWhileConnecting ==
  \A n \in Names :
    (quiet[n] /\ \E t \in TasksOf(n) :
                   task[t].kind = "task" /\ task[t].pc = "cancelled" /\ ~task[t].hs) =>
      /\ ~is_connected(connections, n)
      /\ ~DictHas(connection_tasks, n)

\* The connections that list the tool, as positions of the registry.
Listing(tool) == {i \in 1..Len(connections) : tool \in Range(connections[i].v.tools)}

\* C25: when several registered connections list a tool of the same name,
\* call_by_name dispatches to the one that comes first in the registry's iteration
\* order, and never to a later one.
C25_FirstOwnerWins ==
  [][\A h \in Handlers, tool \in ToolNames :
       (EpCallCall(h, tool) /\ Listing(tool) # {}) =>
         /\ frame'[h].op = "ep_call" /\ frame'[h].pc = "calling"
         /\ \A i \in Listing(tool) :
              IF \A j \in Listing(tool) : i <= j
                THEN frame'[h].t = connections[i].v.chan
                ELSE frame'[h].t # connections[i].v.chan]_vars

\* C25 witness: a call by name is in flight on the first of two registered
\* connections that both list the tool.
C25_Witness ==
  \E h \in Handlers :
    /\ frame[h].op = "ep_call" /\ frame[h].pc = "calling"
    /\ Len(connections) = 2
    /\ Listing(frame[h].name) = {1, 2}
    /\ frame[h].t = connections[1].v.chan

RECURSIVE Concat(_)
\* The concatenation of a sequence of sequences.
Concat(ss) == IF ss = << >> THEN << >> ELSE Head(ss) \o Concat(Tail(ss))

\* C26: in every state list_all() is the concatenation, in registry order, of the tool
\* lists of exactly the registered connections; once disconnect(name) has returned
\* (and until another start of the name) no tool of name is listed, and call_by_name
\* finds no owner for a tool that no other name lists.
C26_ListAllFollowsRegistry ==
  /\ [i \in 1..Len(get_all_tools(connections)) |-> get_all_tools(connections)[i].name]
       = Concat([i \in 1..Len(connections) |-> connections[i].v.tools])
  /\ \A i \in 1..Len(get_all_tools(connections)) :
       LET tool == get_all_tools(connections)[i]
       IN /\ DictHas(connections, tool.server_name)
          /\ tool.name \in Range(DictGet(connections, tool.server_name).tools)
  /\ \A n \in Names :
       quiet[n] =>
         /\ \A i \in 1..Len(get_all_tools(connections)) :
              get_all_tools(connections)[i].server_name # n
         /\ \A tool \in ToolNames :
              (\A i \in Listing(tool) : connections[i].k = n) =>
                FindOwner(connections, tool) = 0

\* The (name, arguments) pairs a list of recorded results stands for, in its order.
CallsIn(results) ==
  [i \in 1..Len(results) |-> [name |-> results[i].tool, args |-> results[i].arguments]]

\* C27: within one turn of the agentic loop the extracted calls are executed one after
\* another in extraction order: at most one call is awaited at a time, it is the
\* first extracted call without a recorded result, and the results recorded for a
\* turn have the length and the order of the calls extracted from the turn's text.
C27_SequentialInExtractionOrder ==
  /\ Len(loop.running) <= 1
  /\ loop.pc # "call" => loop.running = << >>
  /\ loop.pc \in {"exec", "call"} =>
       /\ Len(loop.tool_results) < Len(extract_tool_calls(loop.llm_output))
       /\ CallsIn(loop.tool_results)
            = SubSeq(extract_tool_calls(loop.llm_output), 1, Len(loop.tool_results))
  /\ loop.pc = "call" =>
       loop.running = << extract_tool_calls(loop.llm_output)[Len(loop.tool_results) + 1] >>
  /\ \A k \in 2..Len(loop.conversation) :
       CallsIn(loop.conversation[k].results)
         = extract_tool_calls(loop.conversation[k].output)

\* C27 witness: a turn whose text held two different calls has ended, the first call
\* having failed and the second succeeded.
C27_Witness ==
  /\ Len(loop.conversation) >= 2
  /\ Len(loop.conversation[2].results) = 2
  /\ loop.conversation[2].results[1].tool = <<"f">>
  /\ loop.conversation[2].results[1].status = "error"
  /\ loop.conversation[2].results[2].tool = <<"g">>
  /\ loop.conversation[2].results[2].status = "success"

\* C29: the transcript of the agentic loop is append-only: the first generation
\* request carries the initial prompt, the prompt of request k+1 is the prompt of
\* request k followed by the text generated in turn k and that turn's results, and
\* every request carries the system prompt the loop was called with.
C29_TranscriptAppendOnly ==
  /\ loop.posts # << >> => loop.posts[1].prompt = <<[output |-> << >>, results |-> << >>]>>
  /\ \A k \in 1..Len(loop.posts) : loop.posts[k].system = loop.system_prompt
  /\ \A k \in 1..(Len(loop.posts) - 1) :
       LET p == loop.posts[k].prompt
           q == loop.posts[k + 1].prompt
       IN /\ Len(q) = Len(p) + 1
          /\ SubSeq(q, 1, Len(p)) = p
          /\ q[Len(q)].output = loop.outs[k]
          /\ CallsIn(q[Len(q)].results) = extract_tool_calls(loop.outs[k])

\* C29 witness: a third generation request has been made, after a turn with a failed
\* tool call, by a loop called with the second system prompt.
C29_Witness ==
  /\ Len(loop.posts) = 3
  /\ loop.system_prompt = "review"
  /\ Len(loop.posts[3].prompt) = 3
  /\ \E i \in 1..Len(loop.posts[3].prompt[2].results) :
       loop.posts[3].prompt[2].results[i].status = "error"

\* C30: for every turn budget from 0 on, a loop that has used up its budget returns
\* the last generated text; it does not end in an error.
C30_ExhaustedBudgetIsSoftTimeout ==
  (loop.pc \in {"returned", "raised"} /\ loop.turn = loop.max_turns) =>
    /\ loop.pc = "returned"
    /\ loop.outs # << >>
    /\ loop.ret = loop.outs[Len(loop.outs)]

\* The text shows a result block of the tool with the error message in it.
ShowsError(txt, tool) ==
  LET blk == Replacement(tool, ResultText("error"))
  IN \E i \in 1..Len(txt) :
       i + Len(blk) - 1 <= Len(txt) /\ SubSeq(txt, i, i + Len(blk) - 1) = blk

\* C28: a failing tool call does not abort its batch and is not raised: every
\* extracted call of the batch is executed, and a call that failed is shown in the
\* returned text as that call's error result.
C28_FailureFoldedIntoText ==
  run.pc = "returned" =>
    /\ Len(run.log) = run.found
    /\ \A i \in 1..Len(run.log) :
         run.log[i].status = "error" => ShowsError(run.text, run.log[i].tool)

\* The result entries recorded for file f.
EntriesOf(f) == {i \in 1..Len(job.results) : job.results[i].file = f}

\* C31: a failure of the generation backend for one file gives an "error" result for
\* that file only: every other file of the batch is still processed (each file has
\* its result, each eligible file had its request), and the job is answered with
\* the overall failure only if no processable file succeeded.
C31_BackendFailureIsPerFile ==
  /\ \A k \in 1..Len(job.outs) :
       job.outs[k].out.fail =>
         \A i \in EntriesOf(job.outs[k].file) : job.results[i].status = "error"
  /\ job.pc = "answered" =>
       /\ \A f \in 1..job.n : EntriesOf(f) # {}
       /\ \A f \in 1..job.n :
            job.kinds[f] = "eligible" => \E k \in 1..Len(job.outs) : job.outs[k].file = f
       /\ job.response.kind = "failure" =>
            (ResultsWith("success") = {} /\ ResultsWith("error") # {})

\* C31 witness: the backend failed for the first file of a batch, the second file
\* was transformed, and the job was answered with the artifact.
C31_Witness ==
  /\ job.pc = "answered" /\ job.n = 2
  /\ Len(job.outs) = 2 /\ job.outs[1].file = 1 /\ job.outs[1].out.fail
  /\ \E i \in EntriesOf(2) : job.results[i].status = "success"
  /\ job.response.kind = "artifact"

\* C32: the bulk transform never returns a silently unchanged result: whenever it
\* answers with the artifact, at least one input file was transformed.
C32_ArtifactMeansSomeFileTransformed ==
  (job.pc = "answered" /\ job.response.kind = "artifact") => ResultsWith("success") # {}

\* C33: during one bulk job at most one file is in flight at any instant, and the job
\* comes to its answer with exactly one result entry for every file.
C33_OneFileInFlight ==
  /\ [](/\ Cardinality(job.running) <= 1
        /\ job.pc = "answered" =>
             /\ Len(job.results) = job.n
             /\ \A f \in 1..job.n : Cardinality(EntriesOf(f)) = 1)
  /\ <>(job.pc = "answered")

\* C33 witness: the second file of a batch is in flight after the first has its
\* result, and the job has two files of which both were sent to the backend.
C33_Witness ==
  /\ job.n = 2 /\ job.kinds = <<"eligible", "eligible">>
  /\ job.running = {2}
  /\ EntriesOf(1) # {}

\* The answer of the backend that process_file handled most recently.
LastOut == job.outs[Len(job.outs)]

\* C38: when process_file reports success in multi-file mode, every file it created
\* from the response exists with the emitted content afterwards, also when an
\* emitted path is the path of the original file.
C38_EmittedFilesSurvive ==
  (job.outs # << >> /\ ~LastOut.out.fail) =>
    LET marked == LastOut.out.marked
    IN (\E j \in 1..Len(marked) : ~Unsafe(marked[j].fname)) =>
         \A j \in 1..Len(marked) :
           (/\ ~Unsafe(marked[j].fname)
            /\ \A l \in (j + 1)..Len(marked) : marked[l].fname # marked[j].fname)
             => job.dir[marked[j].fname] = Cleanup(marked[j].content)

\* C39: when a response has '### FILE:' markers and every marked path is unsafe,
\* process_file does not overwrite the original with the raw text (markers
\* included) and does not report success.
C39_AllUnsafeIsNotSuccess ==
  (job.outs # << >> /\ ~LastOut.out.fail) =>
    LET marked == LastOut.out.marked
    IN (marked # << >> /\ \A j \in 1..Len(marked) : Unsafe(marked[j].fname)) =>
         /\ \A i \in EntriesOf(LastOut.file) : job.results[i].status # "success"
         /\ job.dir[FilePath(LastOut.file)] # RawLines(LastOut.out)

\* No result a tool returned shows a tool-call block.
PlainResults == \A i \in 1..Len(run.log) : \A j \in 1..Len(run.log[i].result) :
                  run.log[i].result[j] # "M"

\* What C34 says of the passes: at most max_iterations of them, none after a pass
\* that found no call.
PassesBounded ==
  /\ Len(run.finds) <= run.max_iterations
  /\ \A k \in 1..(Len(run.finds) - 1) : run.finds[k] > 0

\* The run is not stuck: where it has not returned it has a call to make or a pass
\* to begin.
RunCanStep == run.pc = "exec" => run.todo # << >>

\* Where the run stands is (passes left, position within the pass, calls left in the
\* pass); r is before q in the lexicographic order.
RunRank(r) == IF r.pc = "iter" THEN 2 ELSE IF r.pc = "exec" THEN 1 ELSE 0

RunBefore(r, q) ==
  \/ r.iteration > q.iteration
  \/ r.iteration = q.iteration /\ RunRank(r) < RunRank(q)
  \/ r.iteration = q.iteration /\ RunRank(r) = RunRank(q) /\ Len(r.todo) < Len(q.todo)

\* C34 as stated: execute_tool_calls always terminates after at most max_iterations
\* extract/execute passes (every step of a run brings it nearer to its return, the
\* passes never exceed the budget), stops as soon as a pass finds no tool call, and,
\* when no tool result shows a tool-call block, returns a text without a parsable
\* tool call.
C34_TerminatesWithoutCallsLeft ==
  /\ [](/\ PassesBounded
        /\ RunCanStep
        /\ run.iteration <= run.max_iterations
        /\ (run.pc = "returned" /\ PlainResults) => extract_tool_calls(run.text) = << >>)
  /\ [][run.pc # "input" => RunBefore(run', run)]_vars

\* C34 amended: the same, with the last part for max_iterations >= 1 only (with
\* max_iterations = 0 no pass is made and the text is returned as it came).
C34_Amended ==
  /\ [](/\ PassesBounded
        /\ RunCanStep
        /\ run.iteration <= run.max_iterations
        /\ (run.pc = "returned" /\ PlainResults /\ run.max_iterations >= 1)
             => extract_tool_calls(run.text) = << >>)
  /\ [][run.pc # "input" => RunBefore(run', run)]_vars

\* C34 witness: a run with a budget of two passes has returned after a first pass
\* that executed two calls with plain results and a second pass that found none.
C34_Witness ==
  /\ run.pc = "returned"
  /\ run.max_iterations = 2
  /\ PlainResults
  /\ Len(run.log) = 2
  /\ run.finds = <<2, 0>>
  /\ extract_tool_calls(run.text) = << >>

\* C35: disconnect requests for the same connected name that overlap (the second
\* enters while the first still awaits the cancelled task, or disconnect overlaps
\* disconnect_all) all complete without raising, and afterwards the name is neither
\* connected nor tracked: a disconnect that resumes after the task of a name that
\* had connected was cancelled, with no start for the name in between and no further name to go on to, returns
\* normally and leaves the name unknown to the manager.
C35_OverlappingDisconnectsComplete ==
  [][\A h \in Handlers :
       (/\ DisconnectWake(h)
        /\ task[frame[h].t].pc = "cancelled" /\ task[frame[h].t].hs
        /\ frame[h].q = << >>
        /\ ~frame[h].taint)
       => /\ last'.res \in {"ok", "200"}
          /\ ~DictHas(connections', frame[h].name)
          /\ ~DictHas(connection_tasks', frame[h].name)]_vars

\* C36: in every reachable state, every name in the registry refers to a connection
\* whose channel and session are still open and that is held by a tracked background
\* task; in particular, once the one-shot connect has returned, no connection with a
\* closed channel is registered.
C36_RegisteredMeansOpenAndTracked ==
  \A i \in 1..Len(connections) :
    LET n == connections[i].k
        t == connections[i].v.chan
    IN /\ task[t].open
       /\ task[t].kind = "task"
       /\ DictHas(connection_tasks, n) /\ DictGet(connection_tasks, n) = t

\* C37: when the connect endpoint answers a connect request with an error after having
\* started a connection (500, "Connection started but server not ready"), the task it
\* started for the name has finished, so that the name cannot become connected later
\* without a new connect request.
C37_ErrorAnswerLeavesNoTask ==
  [][\A h \in Handlers :
       (EpConnectWake(h) /\ last'.res = "500") => TaskDone(frame[h].t)]_vars

\* The generations whose output held at least one parsable tool call.
WithCalls(outs) == {k \in 1..Len(outs) : extract_tool_calls(outs[k]) # << >>}

RECURSIVE ExtractedTotal(_)
\* The number of tool calls extracted from all the outputs together.
ExtractedTotal(outs) ==
  IF outs = << >> THEN 0
  ELSE Len(extract_tool_calls(Head(outs))) + ExtractedTotal(Tail(outs))

\* C40: in the agentic loop every tool call extracted from a turn's output is executed
\* exactly once in that turn, the final budgeted turn included: between turns and at
\* the end, the number of executed batches equals the number of generations whose
\* output held a parsable tool call, the number of executions equals the number of
\* extracted calls, and a loop that returns on its last budgeted turn with an output
\* holding calls has executed exactly those calls in that turn.
C40_EveryExtractedCallExecutedOnce ==
  loop.pc \in {"gen", "returned", "raised"} =>
    /\ Len(loop.conversation) - 1 = Cardinality(WithCalls(loop.outs))
    /\ loop.execs = ExtractedTotal(loop.outs)
    /\ (loop.pc = "returned" /\ extract_tool_calls(loop.ret) # << >>) =>
         /\ loop.gens = loop.max_turns
         /\ loop.conversation[Len(loop.conversation)].output = loop.ret
         /\ CallsIn(loop.conversation[Len(loop.conversation)].results)
              = extract_tool_calls(loop.ret)

\* C40 witness: a loop with a budget of two turns has returned; both outputs held
\* calls, the last one two, and the two calls of the last turn were executed.
C40_Witness ==
  /\ loop.pc = "returned"
  /\ loop.max_turns = 2 /\ loop.gens = 2
  /\ Cardinality(WithCalls(loop.outs)) = 2
  /\ Len(extract_tool_calls(loop.ret)) = 2
  /\ Len(loop.conversation[3].results) = 2
  /\ loop.execs = 3

====
